---- MODULE Spec2Model ----
(***************************************************************************)
(* Model of yolov3tiny/loss.py (iou, no_object_mask, no_object_mask_filter,  *)
(* preprocess_targets, YOLOLoss.forward) and of the label pipeline of        *)
(* yolov3tiny/data.py (CocoBoundingBoxDataset.__getitem__, the collate       *)
(* function, ToSquare, Resize).                                              *)
(*                                                                           *)
(* Numbers.  Boxes carry integer pixel coordinates.  iou returns the pair    *)
(* (num, den) of the quotient the code computes, in quarter pixels so that   *)
(* the halving of center_format stays integral; the epsilon 1e-9 of the      *)
(* denominator only matters when den = 0 (then num = 0 and the quotient is   *)
(* 0): next to an integer area >= 1 it is absorbed by float32.  Quotients    *)
(* are compared exactly (FracLess).  torch.log and the logit are kept as     *)
(* uninterpreted terms <<"ln", a, b>> and <<"logit", a, b>>.  Tensor dtypes  *)
(* are not modelled.                                                         *)
(***************************************************************************)
EXTENDS Integers, Sequences, FiniteSets, TLC

VARIABLES
    pc,            \* control location of the modelled run
    image_size,    \* configuration: YOLOLoss.image_size / img_size of the dataset
    item,          \* result of the last CocoBoundingBoxDataset.__getitem__
    target_batch,  \* collated labels: one sequence of max_num_boxes rows per image
    num_targets,   \* collated valid counts, one per image
    pre,           \* locals and result of preprocess_targets
    call,          \* a direct call of iou / no_object_mask / no_object_mask_filter
    fwd            \* locals of YOLOLoss.forward

vars == <<pc, image_size, item, target_batch, num_targets, pre, call, fwd>>

None == [fn |-> "none"]

\* ------------------------------------------------------------------ bounds
MaxCoord == 2      \* box positions of the direct iou calls: 0..MaxCoord
MaxSide == 3       \* box extents of the direct iou calls: 0..MaxSide
MaxBatch == 2      \* images per batch: 1..MaxBatch
MaxBoxes == 2      \* max_num_boxes of the dataset (rows of a label tensor)
MaxAnns == 3       \* annotations of one image: 0..MaxAnns
MaxTotal == 2      \* valid boxes of one batch: 0..MaxTotal
NumClasses == 2    \* num_classes of the dataset

\* ----------------------------------------------------------------- helpers
Min(a, b) == IF a <= b THEN a ELSE b
Max(a, b) == IF a >= b THEN a ELSE b

\* tensor.clamp(min=0)
clamp_min0(v) == Max(v, 0)

\* a/b < c/d for a, c >= 0 and b, d > 0, by the Euclidean expansion of both
\* quotients (no product is formed, so no 32-bit overflow).
RECURSIVE FracLess(_, _, _, _)
FracLess(a, b, c, d) ==
    LET q1 == a \div b
        q2 == c \div d
        r1 == a % b
        r2 == c % d
    IN  IF q1 /= q2 THEN q1 < q2
        ELSE IF r2 = 0 THEN FALSE
        ELSE IF r1 = 0 THEN TRUE
        ELSE FracLess(d, r2, b, r1)

\* ------------------------------------------------------------------- iou
\* One entry of the matrix iou returns: boxes b1 (of bboxes1) and b2 (of
\* bboxes2), fields 0..3 at positions 1..4.  Lengths are doubled (areas
\* quadrupled) so that x - w / 2 is an integer.
iou_no_clamp(b1, b2, center_aligned, center_format) ==
    LET area1 == 4 * b1[3] * b1[4]
        area2 == 4 * b2[3] * b2[4]
        left1 == IF center_format THEN 2 * b1[1] - b1[3] ELSE 2 * b1[1]
        left2 == IF center_format THEN 2 * b2[1] - b2[3] ELSE 2 * b2[1]
        top1 == IF center_format THEN 2 * b1[2] - b1[4] ELSE 2 * b1[2]
        top2 == IF center_format THEN 2 * b2[2] - b2[4] ELSE 2 * b2[2]
        w == IF center_aligned
             THEN 2 * Min(b1[3], b2[3])
             ELSE Min(left1 + 2 * b1[3], left2 + 2 * b2[3]) - Max(left1, left2)
        h == IF center_aligned
             THEN 2 * Min(b1[4], b2[4])
             ELSE Min(top1 + 2 * b1[4], top2 + 2 * b2[4]) - Max(top1, top2)
        intersection == w * h
    IN  [num |-> intersection, den |-> area1 + area2 - intersection]

iou(b1, b2, center_aligned, center_format) ==
    LET area1 == 4 * b1[3] * b1[4]
        area2 == 4 * b2[3] * b2[4]
        left1 == IF center_format THEN 2 * b1[1] - b1[3] ELSE 2 * b1[1]
        left2 == IF center_format THEN 2 * b2[1] - b2[3] ELSE 2 * b2[1]
        top1 == IF center_format THEN 2 * b1[2] - b1[4] ELSE 2 * b1[2]
        top2 == IF center_format THEN 2 * b2[2] - b2[4] ELSE 2 * b2[2]
        w == IF center_aligned
             THEN clamp_min0(2 * Min(b1[3], b2[3]))
             ELSE clamp_min0(Min(left1 + 2 * b1[3], left2 + 2 * b2[3])
                             - Max(left1, left2))
        h == IF center_aligned
             THEN clamp_min0(2 * Min(b1[4], b2[4]))
             ELSE clamp_min0(Min(top1 + 2 * b1[4], top2 + 2 * b2[4])
                             - Max(top1, top2))
        intersection == w * h
    IN  [num |-> intersection, den |-> area1 + area2 - intersection]

\* The quotient num / (den + 1e-9) is exactly 0.
IouIsZero(r) == r.num = 0

\* r < s as quotients (both with den >= 0; den = 0 forces num = 0).
IouLess(r, s) ==
    IF s.num = 0 THEN FALSE
    ELSE IF r.num = 0 THEN TRUE
    ELSE FracLess(r.num, r.den, s.num, s.den)

\* The boxes a direct call of iou is given.
IouBoxes == {<<x, y, w, h>> : x \in 0..MaxCoord, y \in 0..MaxCoord,
                              w \in 0..MaxSide, h \in 0..MaxSide}

InitIdle(p) ==
    /\ pc = p
    /\ image_size = 416
    /\ item = None
    /\ target_batch = <<>>
    /\ num_targets = <<>>
    /\ pre = None
    /\ call = None
    /\ fwd = None

\* A direct call iou(bboxes1, bboxes2, center_aligned, center_format) on one
\* box per side.
IouCall ==
    /\ pc = "iou"
    /\ \E b1 \in IouBoxes, b2 \in IouBoxes, ca \in BOOLEAN, cf \in BOOLEAN :
          call' = [fn |-> "iou", bboxes1 |-> b1, bboxes2 |-> b2,
                   center_aligned |-> ca, center_format |-> cf,
                   out |-> iou(b1, b2, ca, cf)]
    /\ pc' = "iou_done"
    /\ UNCHANGED <<image_size, item, target_batch, num_targets, pre, fwd>>

\* ------------------------------------------------------- data.py: labels

\* category_ids (the keys of get_names): paper index -> training index.
category_ids == (0 :> 0) @@ (2 :> 1)

\* The (width, height) of the stored images.
ImageShapes == {<<208, 206>>}

\* The stored annotations: category_id and bbox = (x, y, w, h) in pixels of
\* the stored image.  category_id 2 has no training index.
AnnSet == {[category_id |-> 1, bbox |-> <<4, 4, 7, 9>>],
           [category_id |-> 3, bbox |-> <<100, 99, 5, 7>>],
           [category_id |-> 3, bbox |-> <<10, 19, 9, 9>>],
           [category_id |-> 2, bbox |-> <<50, 50, 20, 20>>]}

RECURSIVE SeqsUpTo(_, _)
SeqsUpTo(S, n) ==
    IF n = 0 THEN {<<>>}
    ELSE LET shorter == SeqsUpTo(S, n - 1)
         IN  shorter \cup {Append(q, e) : q \in {r \in shorter : Len(r) = n - 1},
                                          e \in S}

AnnLists == SeqsUpTo(AnnSet, MaxAnns)

\* torch.zeros(n) as a row, torch.eye(n)[index] (index from 0)
zeros(n) == [k \in 1..n |-> 0]
eye_row(n, index) == [k \in 1..n |-> IF k = index + 1 THEN 1 ELSE 0]

xywh_to_xyxy(bbox) ==
    <<bbox[1], bbox[2], bbox[1] + bbox[3], bbox[2] + bbox[4]>>

\* Fields 0..3 of a label row replaced, the others kept.
WithBox(row, box) == [k \in 1..Len(row) |-> IF k <= 4 THEN box[k] ELSE row[k]]

\* ToSquare.__call__ on one label row; shape = (w, h) of the image.
ToSquare(shape, row) ==
    LET w == shape[1]
        h == shape[2]
        diff == IF w >= h THEN w - h ELSE h - w
        pad1 == diff \div 2
    IN  IF w > h
        THEN WithBox(row, <<row[1], row[2] + pad1, row[3], row[4] + pad1>>)
        ELSE WithBox(row, <<row[1] + pad1, row[2], row[3] + pad1, row[4]>>)

\* Resize.__call__ on one label row of the squared image of the given side:
\* scale = width / side; the modelled sides divide width.
Resize(width, side, row) ==
    WithBox(row, <<(row[1] * width) \div side, (row[2] * width) \div side,
                   (row[3] * width) \div side, (row[4] * width) \div side>>)

\* prepare_for_inference(img_size) applied to one label row.
transform(img_size, shape, row) ==
    Resize(img_size, Max(shape[1], shape[2]), ToSquare(shape, row))

\* The loop of __getitem__ over the annotations: one row per annotation whose
\* category has a training index.
RECURSIVE outputs_of(_)
outputs_of(anns) ==
    IF anns = <<>> THEN <<>>
    ELSE LET target == Head(anns)
             rest == outputs_of(Tail(anns))
         IN  IF (target.category_id - 1) \notin DOMAIN category_ids
             THEN rest
             ELSE <<xywh_to_xyxy(target.bbox) \o <<1>>
                    \o eye_row(NumClasses, category_ids[target.category_id - 1])>>
                  \o rest

\* torch.zeros(rows, width): raises for rows < 0.
zeros_rows(rows, width) == [k \in 1..rows |-> zeros(width)]

\* CocoBoundingBoxDataset.__getitem__: the label tensor and the valid count,
\* or the RuntimeError of torch.zeros(num_box_padding, ...) for a negative
\* num_box_padding.
getitem(img_size, shape, anns) ==
    LET outputs == outputs_of(anns)
        num_box_padding == MaxBoxes - Len(outputs)
        output_tensor == [k \in 1..Len(outputs) |->
                             transform(img_size, shape, outputs[k])]
    IN  IF Len(outputs) > 0
        THEN IF num_box_padding < 0
             THEN [status |-> "RuntimeError"]
             ELSE [status |-> "ok",
                   label |-> output_tensor
                             \o zeros_rows(num_box_padding, NumClasses + 5),
                   n |-> Len(outputs)]
        ELSE [status |-> "ok",
              label |-> zeros_rows(MaxBoxes, NumClasses + 5),
              n |-> 0]

RECURSIVE SumSeq(_)
SumSeq(q) == IF q = <<>> THEN 0 ELSE Head(q) + SumSeq(Tail(q))

\* The data loader fetches one sample: dataset[index].
GetItem ==
    /\ pc = "load"
    /\ item.fn = "none"
    /\ Len(target_batch) < MaxBatch
    /\ \E shape \in ImageShapes, anns \in AnnLists :
          item' = [fn |-> "__getitem__", shape |-> shape, anns |-> anns,
                   out |-> getitem(image_size, shape, anns)]
    /\ pc' = IF item'.out.status = "ok" THEN "load" ELSE "error"
    /\ UNCHANGED <<image_size, target_batch, num_targets, pre, call, fwd>>

\* One iteration of the loop of collate_coco_sample.
collate_append ==
    /\ pc = "load"
    /\ item.fn = "__getitem__"
    /\ SumSeq(num_targets) + item.out.n <= MaxTotal
    /\ target_batch' = Append(target_batch, item.out.label)
    /\ num_targets' = Append(num_targets, item.out.n)
    /\ item' = None
    /\ UNCHANGED <<pc, image_size, pre, call, fwd>>

\* collate_coco_sample returns the stacked labels and sizes.
collate_return ==
    /\ pc = "load"
    /\ item.fn = "none"
    /\ Len(target_batch) >= 1
    /\ pc' = "batched"
    /\ UNCHANGED <<image_size, item, target_batch, num_targets, pre, call, fwd>>

\* ------------------------------------------- loss.py: preprocess_targets
\* list_anchors: six (w, h) pairs, two scale groups of three.
Anchors == << <<10, 14>>, <<23, 27>>, <<37, 58>>,
              <<81, 82>>, <<135, 169>>, <<344, 319>> >>

\* bbox_anchors: the anchors as boxes at the origin.
bbox_anchors == [k \in 1..Len(Anchors) |-> <<0, 0, Anchors[k][1], Anchors[k][2]>>]

\* torch.argmax over a sequence of quotients: the index (from 0) of the first
\* maximal value.
argmax(values) ==
    (CHOOSE k \in 1..Len(values) :
        /\ \A j \in 1..Len(values) : ~IouLess(values[k], values[j])
        /\ \A j \in 1..(k - 1) : IouLess(values[j], values[k])) - 1

\* anchor_index of one target row: lines 91-92.  The row's fields 2 and 3 are
\* read as the box's width and height.
anchor_index_of(row) ==
    argmax([k \in 1..Len(Anchors) |->
               iou(bbox_anchors[k], SubSeq(row, 1, 4), TRUE, FALSE)])

Pow2(scale) == IF scale = 0 THEN 1 ELSE 2

\* stride = (image_size / 26) * 2 ** scale, as the quotient num / den.
stride_of(size, scale) == [num |-> size * Pow2(scale), den |-> 26]

\* v // stride and size // stride
floordiv(v, stride) == (v * stride.den) \div stride.num

\* (v / stride - c).clamp(1e-9, 1-1e-9), then log(t / (1 - t)): an
\* uninterpreted term over the clamped quotient.
logit_clamped(v, stride, c) ==
    LET a == v * stride.den - c * stride.num
    IN  IF a <= 0 THEN <<"logit", "1e-9">>
        ELSE IF a >= stride.num THEN <<"logit", "1-1e-9">>
        ELSE <<"logit", a, stride.num>>

\* torch.log(a / b), uninterpreted
ln(a, b) == <<"ln", a, b>>

\* The encoded row target_batch_t[b][i]: lines 98-116.
encode(size, row) ==
    LET anchor_index == anchor_index_of(row)
        stride == stride_of(size, anchor_index \div 3)
        cx == floordiv(row[1], stride)
        cy == floordiv(row[2], stride)
        chosen_anchors == Anchors[anchor_index + 1]
    IN  WithBox(row, <<logit_clamped(row[1], stride, cx),
                       logit_clamped(row[2], stride, cy),
                       ln(row[3], chosen_anchors[1]),
                       ln(row[4], chosen_anchors[2])>>)

\* large_scale_mask = scale.logical_not().long()
large_scale_mask_plain(scale) == IF scale = 0 THEN 0 ELSE 1

large_scale_mask(scale) == IF scale = 0 THEN 1 ELSE 0

\* object_index of one target row: lines 94-99 and 118-124.
object_index_of(size, row) ==
    LET anchor_index == anchor_index_of(row)
        scale == anchor_index \div 3
        stride == stride_of(size, scale)
        cx == floordiv(row[1], stride)
        cy == floordiv(row[2], stride)
        grid_size == floordiv(size, stride)
    IN  large_scale_mask(scale) * (size \div 32) * (size \div 32) * 3
        + grid_size * grid_size * (anchor_index % 3)
        + grid_size * cy
        + cx

\* num_predictions = 13 ** 2 * 3 + 26 ** 2 * 3
num_predictions == 13 * 13 * 3 + 26 * 26 * 3

\* s[:length]
slice_plus_one(s, length) == SubSeq(s, 1, Min(length + 1, Len(s)))

slice(s, length) == SubSeq(s, 1, Min(length, Len(s)))

\* torch.cat of a list of sequences
RECURSIVE cat(_)
cat(list) == IF list = <<>> THEN <<>> ELSE Head(list) \o cat(Tail(list))

\* Lines 87-130: the batched part of preprocess_targets, up to the loop.
preprocess_targets_begin ==
    /\ pc = "batched"
    /\ pre' = [fn |-> "preprocess_targets",
               anchor_index |-> [b \in 1..Len(target_batch) |->
                   [i \in 1..MaxBoxes |-> anchor_index_of(target_batch[b][i])]],
               object_index |-> [b \in 1..Len(target_batch) |->
                   [i \in 1..MaxBoxes |->
                       object_index_of(image_size, target_batch[b][i])]],
               target_batch_t |-> [b \in 1..Len(target_batch) |->
                   [i \in 1..MaxBoxes |-> encode(image_size, target_batch[b][i])]],
               batch |-> 0,
               object_index_flat |-> <<>>,
               targets_flat |-> <<>>]
    /\ pc' = "loop"
    /\ UNCHANGED <<image_size, item, target_batch, num_targets, call, fwd>>

\* Lines 132-137: one iteration of the loop over the images.
preprocess_targets_loop ==
    /\ pc = "loop"
    /\ pre.batch < Len(target_batch)
    /\ LET batch == pre.batch
           indices == pre.object_index[batch + 1]
           targets == pre.target_batch_t[batch + 1]
           length == num_targets[batch + 1]
       IN  pre' = [pre EXCEPT
               !.object_index_flat = Append(@,
                   [k \in 1..Len(slice(indices, length)) |->
                       slice(indices, length)[k] + batch * num_predictions]),
               !.targets_flat = Append(@, slice(targets, length)),
               !.batch = batch + 1]
    /\ UNCHANGED <<pc, image_size, item, target_batch, num_targets, call, fwd>>

\* Line 139: return torch.cat(targets_flat), torch.cat(object_index_flat)
preprocess_targets_return ==
    /\ pc = "loop"
    /\ pre.batch = Len(target_batch)
    /\ pre' = [fn |-> "preprocess_targets",
               anchor_index |-> pre.anchor_index,
               object_index |-> pre.object_index,
               target_batch_t |-> pre.target_batch_t,
               targets |-> cat(pre.targets_flat),
               target_indices |-> cat(pre.object_index_flat)]
    /\ pc' = "preprocessed"
    /\ UNCHANGED <<image_size, item, target_batch, num_targets, call, fwd>>

InitLoad(sizes) ==
    /\ pc = "load"
    /\ image_size \in sizes
    /\ item = None
    /\ target_batch = <<>>
    /\ num_targets = <<>>
    /\ pre = None
    /\ call = None
    /\ fwd = None

NextPre ==
    \/ GetItem
    \/ collate_append
    \/ collate_return
    \/ preprocess_targets_begin
    \/ preprocess_targets_loop
    \/ preprocess_targets_return

\* Any image size divisible by 32 whose strides image_size / 26 and
\* image_size / 13 are exact.
InitAnySize == InitLoad({416, 832})
SpecAnySize == InitAnySize /\ [][NextPre]_vars

\* Valid boxes of image b (from 1) precede position Offset(b) + 1 of the flat
\* outputs.
Offset(b) == SumSeq(SubSeq(num_targets, 1, b - 1))

\* The (image, row) pairs of the valid boxes of the batch.
ValidBoxes == {bi \in (1..Len(target_batch)) \X (1..MaxBoxes) :
                  bi[2] <= num_targets[bi[1]]}

\* ---- C1 ----------------------------------------------------------------
\* C1: preprocess_targets returns one (encoded target, flat index) pair per
\* valid box: both outputs have length sum(valid_counts) and are, in image
\* order, the first valid_counts[i] entries of image i in their order; an
\* image with count 0 contributes nothing.
C1_OnePairPerValidBox ==
    pc = "preprocessed" =>
        /\ Len(pre.targets) = SumSeq(num_targets)
        /\ Len(pre.target_indices) = SumSeq(num_targets)
        /\ \A bi \in ValidBoxes :
              /\ pre.targets[Offset(bi[1]) + bi[2]]
                    = pre.target_batch_t[bi[1]][bi[2]]
              /\ pre.target_indices[Offset(bi[1]) + bi[2]]
                    = pre.object_index[bi[1]][bi[2]]
                      + (bi[1] - 1) * num_predictions

\* C1 witness: a batch whose first image has no box and whose second has two.
C1_Witness ==
    /\ pc = "preprocessed"
    /\ num_targets = <<0, 2>>
    /\ Len(pre.targets) = 2
    /\ Len(pre.target_indices) = 2

\* ---- C8 ----------------------------------------------------------------
InImage(row) ==
    /\ 0 <= row[1] /\ row[1] < image_size
    /\ 0 <= row[2] /\ row[2] < image_size

\* (anchor_index mod 3) * grid_size^2 + grid_y * grid_size + grid_x
WithinScale(anchor, row, grid, cell) ==
    (anchor % 3) * grid * grid + (row[2] \div cell) * grid + (row[1] \div cell)

\* C8 (as amended): at image_size 416, for a target at (x, y) in
\* [0, 416)^2, the per-image index of a box matched to the coarser scale
\* (anchor_index div 3 = 1, grid 13x13) lies in [0, 13^2 * 3), that of a box
\* matched to the finer scale (anchor_index div 3 = 0, grid 26x26) in the
\* range that follows, [13^2 * 3, 13^2 * 3 + 26^2 * 3); within its range the
\* index is (anchor_index mod 3) * grid^2 + grid_y * grid + grid_x.
C8_CoarseFirstLayout ==
    (pc = "preprocessed" /\ image_size = 416) =>
        \A bi \in ValidBoxes :
            LET row == target_batch[bi[1]][bi[2]]
                anchor == pre.anchor_index[bi[1]][bi[2]]
                index == pre.object_index[bi[1]][bi[2]]
            IN  InImage(row) =>
                  /\ anchor \div 3 = 1 =>
                        /\ 0 <= index /\ index < 13 * 13 * 3
                        /\ index = WithinScale(anchor, row, 13, 32)
                  /\ anchor \div 3 = 0 =>
                        /\ 13 * 13 * 3 <= index
                        /\ index < 13 * 13 * 3 + 26 * 26 * 3
                        /\ index - 13 * 13 * 3 = WithinScale(anchor, row, 26, 16)

\* C8 witness: a batch with a box matched to the finer scale and a box
\* matched to the coarser scale, off the first grid cell.
C8_Witness ==
    /\ pc = "preprocessed"
    /\ image_size = 416
    /\ \E bi \in ValidBoxes, bj \in ValidBoxes :
          /\ pre.anchor_index[bi[1]][bi[2]] \div 3 = 0
          /\ pre.object_index[bi[1]][bi[2]] > 13 * 13 * 3 + 26 * 26
          /\ target_batch[bi[1]][bi[2]][1] >= 16
          /\ pre.anchor_index[bj[1]][bj[2]] \div 3 = 1
          /\ pre.object_index[bj[1]][bj[2]] > 13 * 13

\* C8 (original statement): the finer scale occupies [0, 26^2 * 3) and the
\* coarser scale the range that follows.
C8_FineFirstLayout ==
    (pc = "preprocessed" /\ image_size = 416) =>
        \A bi \in ValidBoxes :
            LET row == target_batch[bi[1]][bi[2]]
                anchor == pre.anchor_index[bi[1]][bi[2]]
                index == pre.object_index[bi[1]][bi[2]]
            IN  InImage(row) =>
                  /\ anchor \div 3 = 0 =>
                        /\ 0 <= index /\ index < 26 * 26 * 3
                        /\ index = WithinScale(anchor, row, 26, 16)
                  /\ anchor \div 3 = 1 =>
                        /\ 26 * 26 * 3 <= index
                        /\ index < 26 * 26 * 3 + 13 * 13 * 3
                        /\ index - 26 * 26 * 3 = WithinScale(anchor, row, 13, 32)

\* ---- C9 ----------------------------------------------------------------
\* Prediction slots per image for an image size: two grids of size/16 and
\* size/32 cells a side, three anchors each.
SlotsPerImage(size) ==
    3 * (size \div 16) * (size \div 16) + 3 * (size \div 32) * (size \div 32)

FlatIndex(bi) == pre.target_indices[Offset(bi[1]) + bi[2]]

\* (image, scale, anchor_index mod 3, grid_y, grid_x) of a valid box
SlotOf(bi) ==
    LET row == target_batch[bi[1]][bi[2]]
        anchor == pre.anchor_index[bi[1]][bi[2]]
        cell == (image_size \div 26) * Pow2(anchor \div 3)
    IN  <<bi[1], anchor \div 3, anchor % 3, row[2] \div cell, row[1] \div cell>>

\* C9: for every image_size divisible by 32 and targets inside the image, the
\* flat index of a box of image b lies in [b * P, (b + 1) * P), P the number
\* of prediction slots per image for that size, and two boxes share a flat
\* index only if they agree on (image, scale, anchor mod 3, grid_y, grid_x).
C9_IndexInImageRange ==
    (pc = "preprocessed" /\ image_size % 32 = 0) =>
        /\ \A bi \in ValidBoxes :
              InImage(target_batch[bi[1]][bi[2]]) =>
                 /\ (bi[1] - 1) * SlotsPerImage(image_size) <= FlatIndex(bi)
                 /\ FlatIndex(bi) < bi[1] * SlotsPerImage(image_size)
        /\ \A bi \in ValidBoxes, bj \in ValidBoxes :
              (/\ InImage(target_batch[bi[1]][bi[2]])
               /\ InImage(target_batch[bj[1]][bj[2]])
               /\ FlatIndex(bi) = FlatIndex(bj))
              => SlotOf(bi) = SlotOf(bj)

\* ---- C10 ---------------------------------------------------------------
\* The anchor with the greatest center-aligned IoU with the box's own width
\* and height, the first one on a tie.
BestShapeAnchor(row) ==
    LET w == row[3] - row[1]
        h == row[4] - row[2]
        score == [k \in 1..Len(Anchors) |->
                     [num |-> Min(Anchors[k][1], w) * Min(Anchors[k][2], h),
                      den |-> Anchors[k][1] * Anchors[k][2] + w * h
                              - Min(Anchors[k][1], w) * Min(Anchors[k][2], h)]]
    IN  (CHOOSE k \in 1..Len(Anchors) :
            /\ \A j \in 1..Len(Anchors) : ~IouLess(score[k], score[j])
            /\ \A j \in 1..(k - 1) : IouLess(score[j], score[k])) - 1

\* C10: the anchor assigned to a valid row [x1,y1,x2,y2,...] is the one of
\* greatest center-aligned IoU with (x2 - x1, y2 - y1), wherever the box
\* sits, the lowest index on a tie.
C10_AnchorByOwnShape ==
    pc = "preprocessed" =>
        \A bi \in ValidBoxes :
            pre.anchor_index[bi[1]][bi[2]]
                = BestShapeAnchor(target_batch[bi[1]][bi[2]])

\* ---- C7 ----------------------------------------------------------------
IsMapped(ann) == (ann.category_id - 1) \in DOMAIN category_ids
Mapped(anns) == SelectSeq(anns, IsMapped)

\* C7: for any annotation list, __getitem__ returns a label tensor of exactly
\* max_num_boxes rows and a valid count n <= max_num_boxes, the number of
\* real boxes; rows 0..n-1 are the real boxes in annotation order
\* (confidence 1, one-hot class), every later row is all zero.
C7_FixedCapacityLabel ==
    item.fn = "__getitem__" =>
        /\ item.out.status = "ok"
        /\ Len(item.out.label) = MaxBoxes
        /\ item.out.n <= MaxBoxes
        /\ item.out.n = Min(Len(Mapped(item.anns)), MaxBoxes)
        /\ \A k \in 1..MaxBoxes :
              IF k <= item.out.n
              THEN /\ item.out.label[k][5] = 1
                   /\ \A c \in 1..NumClasses :
                         item.out.label[k][5 + c]
                            = IF c = category_ids[Mapped(item.anns)[k].category_id - 1] + 1
                              THEN 1 ELSE 0
              ELSE item.out.label[k] = zeros(NumClasses + 5)

\* --------------------------------------------- loss.py: no_object_mask
\* ignore_thresh, as the quotient num / den
ignore_thresh == [num |-> 1, den |-> 2]

\* torch.max(ious, dim=2)[0] of one prediction: the greatest quotient.
max_iou(values) ==
    values[CHOOSE k \in 1..Len(values) :
              \A j \in 1..Len(values) : ~IouLess(values[k], values[j])]

\* no_object_mask(pred, target, ignore_thresh) for pred of shape
\* (batch, predictions, attributes) and target of shape (batch', boxes,
\* attributes'): the assert compares the batch sizes; its second expression
\* is the assertion's message.  The mask is the result of the comparison
\* "<", a tensor of dtype bool: 1 (True) where the greatest IoU is below the
\* threshold.
no_object_mask(pred, target, thresh) ==
    IF Len(pred) /= Len(target)
    THEN [status |-> "AssertionError"]
    ELSE LET n == Len(pred[1])
         IN  [status |-> "ok",
              dtype |-> "bool",
              shape |-> <<Len(pred), n>>,
              data |-> [k \in 0..(Len(pred) * n - 1) |->
                  LET b == (k \div n) + 1
                      p == (k % n) + 1
                  IN  IF IouLess(max_iou([t \in 1..Len(target[b]) |->
                                    iou(SubSeq(pred[b][p], 1, 4),
                                        SubSeq(target[b][t], 1, 4), FALSE, TRUE)]),
                                 thresh)
                      THEN 1 ELSE 0]]

\* The same call with the flat two-dimensional targets of preprocess_targets
\* (shape (boxes, attributes)): a failing assert evaluates its message
\* target.shape[2], an IndexError; with as many boxes as images the (batch,
\* predictions, 1) and (boxes, 1) operands of iou broadcast only for one
\* image, and the mask compares each prediction with the one encoded row.
no_object_mask_flat(pred, target, thresh) ==
    IF Len(pred) /= Len(target)
    THEN [status |-> "IndexError"]
    ELSE IF Len(pred) /= 1
    THEN [status |-> "RuntimeError"]
    ELSE [status |-> "ok",
          dtype |-> "bool",
          shape |-> <<1, Len(pred[1])>>,
          data |-> [k \in 0..(Len(pred[1]) - 1) |->
              <<"iou<thresh", SubSeq(pred[1][k + 1], 1, 4),
                SubSeq(target[1], 1, 4)>>]]

\* The boxes of the direct calls of no_object_mask, (cx, cy, w, h).
MaskBoxes == {<<4, 4, 4, 4>>, <<5, 4, 4, 4>>, <<20, 20, 2, 2>>}

\* A row of the given number of attributes holding a box.
RowOf(box, attributes) == [k \in 1..attributes |-> IF k <= 4 THEN box[k] ELSE 0]

\* A direct call no_object_mask(pred, target, ignore_thresh): two predictions
\* and one target per image.
NoObjectMaskCall ==
    /\ pc = "mask"
    /\ \E bp \in 1..MaxBatch, bt \in 1..MaxBatch,
          p1 \in MaskBoxes, p2 \in MaskBoxes, t \in MaskBoxes,
          at \in {NumClasses + 5, NumClasses + 4, 4} :
          LET pred == [b \in 1..bp |-> <<RowOf(p1, NumClasses + 5),
                                         RowOf(p2, NumClasses + 5)>>]
              target == [b \in 1..bt |-> <<RowOf(t, at)>>]
          IN  call' = [fn |-> "no_object_mask", pred |-> pred, target |-> target,
                       out |-> no_object_mask(pred, target, ignore_thresh)]
    /\ pc' = "mask_done"
    /\ UNCHANGED <<image_size, item, target_batch, num_targets, pre, fwd>>

InitMask == InitIdle("mask")
NextMask == NoObjectMaskCall
SpecMask == InitMask /\ [][NextMask]_vars

\* ---- C6 ----------------------------------------------------------------
\* C6: no_object_mask fails with an assertion failure, and returns no mask,
\* whenever the targets' batch size or the targets' attribute count
\* (target.shape[2]) differs from the predictions'.
C6_ShapeMismatchFails ==
    (/\ call.fn = "no_object_mask"
     /\ \/ Len(call.pred) /= Len(call.target)
        \/ Len(call.pred[1][1]) /= Len(call.target[1][1]))
    => call.out.status = "AssertionError"

\* -------------------------------------- loss.py: no_object_mask_filter
\* A mask is kept as its shape (batch_size, num_predictions) and its
\* contiguous data: position p of image b (both from 0) is flat index
\* b * num_predictions + p.  view(-1) and view(batch_size, num_predictions)
\* change the shape and share the data.
\* _filter = torch.zeros(noobj_mask.shape), flat, of the default dtype
filter_zeros(n) == [dtype |-> "float32", data |-> [k \in 0..(n - 1) |-> 0]]

\* tensor.scatter_(0, index, src): tensor[index[k]] = src[k] for every k of
\* index, in order.
RECURSIVE scatter_from(_, _, _, _)
scatter_from(tensor, index, src, k) ==
    IF k > Len(index) THEN tensor
    ELSE scatter_from([tensor EXCEPT ![index[k]] = src[k - 1]], index, src, k + 1)

scatter_(tensor, index, src) == scatter_from(tensor, index, src, 1)

\* no_object_mask_filter(noobj_mask, object_index).  scatter_ raises
\* RuntimeError when the dtype of the mask is not the dtype of _filter
\* ("Expected self.dtype to be equal to src.dtype") and when an index lies
\* outside the flattened mask.
no_object_mask_filter(noobj_mask, object_index) ==
    LET batch_size == noobj_mask.shape[1]
        n == noobj_mask.shape[2]
        flat == noobj_mask.data
        _filter == filter_zeros(batch_size * n)
    IN  IF \/ noobj_mask.dtype /= _filter.dtype
           \/ \E k \in 1..Len(object_index) :
                 object_index[k] \notin 0..(batch_size * n - 1)
        THEN [status |-> "RuntimeError"]
        ELSE [status |-> "ok",
              dtype |-> noobj_mask.dtype,
              shape |-> <<batch_size, n>>,
              data |-> scatter_(flat, object_index, _filter.data)]

\* The masks a direct call of no_object_mask_filter is given, of shape
\* (batch, num_predictions): all 1, or 1 at every other position, as a bool
\* tensor (what no_object_mask returns) or as a float tensor.
MaskPatterns == {"ones", "alternate"}
MaskDtypes == {"bool", "float32"}
MaskValue(pattern, k) == IF pattern = "ones" THEN 1 ELSE k % 2
MaskOf(pattern, dtype, batch_size) ==
    [status |-> "ok",
     dtype |-> dtype,
     shape |-> <<batch_size, num_predictions>>,
     data |-> [k \in 0..(batch_size * num_predictions - 1) |->
                  MaskValue(pattern, k)]]

\* A direct call no_object_mask_filter(noobj_mask, object_index) with the
\* flat indices preprocess_targets returned; the call record keeps the
\* pattern and the dtype of the mask it was given.
NoObjectMaskFilterCall ==
    /\ pc = "preprocessed"
    /\ \E pattern \in MaskPatterns, dtype \in MaskDtypes :
          call' = [fn |-> "no_object_mask_filter",
                   noobj_mask |-> pattern,
                   dtype |-> dtype,
                   object_index |-> pre.target_indices,
                   out |-> no_object_mask_filter(
                               MaskOf(pattern, dtype, Len(target_batch)),
                               pre.target_indices)]
    /\ pc' = "filtered"
    /\ UNCHANGED <<image_size, item, target_batch, num_targets, pre, fwd>>

\* ---- C2 ----------------------------------------------------------------
Range(q) == {q[k] : k \in 1..Len(q)}

\* C2: no_object_mask_filter returns the input mask with exactly the positive
\* positions forced to 0: 0 at every flat index of preprocess_targets,
\* whatever the value was and however many boxes share the index, and the
\* input value everywhere else.
C2_PositivesForcedToZero ==
    call.fn = "no_object_mask_filter" =>
        /\ call.out.status = "ok"
        /\ call.out.shape = <<Len(target_batch), num_predictions>>
        /\ LET positives == Range(call.object_index)
               pattern == call.noobj_mask
           IN  call.out.data
                  = [k \in 0..(Len(target_batch) * num_predictions - 1) |->
                        IF k \in positives THEN 0 ELSE MaskValue(pattern, k)]

\* ----------------------------------------- loss.py: YOLOLoss.forward
\* The prediction tensors forward is given, of shape (batch,
\* num_predictions, 5 + classes): all rows zero, or every row the same box
\* with a zero objectness logit.
PredPatterns == {"zero", "box"}
PredRow(pattern) ==
    IF pattern = "zero" THEN zeros(NumClasses + 5)
    ELSE RowOf(<<200, 200, 210, 214>>, NumClasses + 5)
Predictions(pattern, batch_size) ==
    LET row == PredRow(pattern)
        image == [p \in 1..num_predictions |-> row]
    IN  [b \in 1..batch_size |-> image]

\* torch.zeros_like / torch.ones_like: the fill value and the shape
filled(value, shape) == [fill |-> value, shape |-> shape]

\* F.binary_cross_entropy_with_logits(input, target, reduction="sum"): a
\* target whose size differs from the input's raises ValueError.
binary_cross_entropy_with_logits(input_shape, target) ==
    IF target.shape /= input_shape
    THEN [status |-> "ValueError", target |-> target]
    ELSE [status |-> "ok", target |-> target]

\* Lines 151-152: targets is rebound to the flat encoded targets, which
\* no_object_mask then receives; line is the last line forward has run.
forward_no_object_mask ==
    /\ pc = "preprocessed"
    /\ \E pattern \in PredPatterns :
          fwd' = [fn |-> "forward",
                  line |-> 152,
                  predictions |-> pattern,
                  targets |-> pre.targets,
                  target_indices |-> pre.target_indices,
                  mask_target_shape |-> <<Len(pre.targets), NumClasses + 5>>,
                  noobj_mask |-> no_object_mask_flat(
                      Predictions(pattern, Len(target_batch)), pre.targets,
                      ignore_thresh)]
    /\ pc' = IF fwd'.noobj_mask.status = "ok" THEN "forward_153" ELSE "error"
    /\ UNCHANGED <<image_size, item, target_batch, num_targets, pre, call>>

\* Line 153: the mask of line 152 is a bool tensor.
forward_no_object_mask_filter ==
    /\ pc = "forward_153"
    /\ fwd' = [fwd EXCEPT !.line = 153,
                          !.noobj_mask = no_object_mask_filter(
                                             fwd.noobj_mask, fwd.target_indices)]
    /\ pc' = IF fwd'.noobj_mask.status = "ok" THEN "forward_163" ELSE "error"
    /\ UNCHANGED <<image_size, item, target_batch, num_targets, pre, call>>

\* Lines 163-174, which run once line 153 has returned: the call of line 174
\* that gives obj_loss.  target_confidence_noobj is the zeros of the shape of
\* the (batch, num_predictions) confidence logits; preds_obj holds one row
\* per flat index; target_confidence_obj, the ones of the shape of the
\* gathered logits, is built and not used.
obj_loss(batch_size, target_indices) ==
    LET confidence_logits_shape == <<batch_size, num_predictions>>
        target_confidence_noobj == filled(0, confidence_logits_shape)
        preds_obj_shape == <<Len(target_indices)>>
        target_confidence_obj == filled(1, preds_obj_shape)
    IN  binary_cross_entropy_with_logits(preds_obj_shape,
                                         target_confidence_noobj)

Init == InitLoad({416})
Next ==
    \/ GetItem
    \/ collate_append
    \/ collate_return
    \/ preprocess_targets_begin
    \/ preprocess_targets_loop
    \/ preprocess_targets_return
    \/ NoObjectMaskFilterCall
    \/ forward_no_object_mask
    \/ forward_no_object_mask_filter
Spec == Init /\ [][Next]_vars

\* ---- C3 ----------------------------------------------------------------
\* C3: in forward the mask before suppression is 1 at (b, p) exactly when the
\* greatest IoU (center_format=true, center_aligned=false) of prediction p of
\* image b with the raw target boxes of image b is below ignore_thresh; the
\* mask builder receives the raw per-image targets, of shape (batch,
\* max_boxes, attributes), not the flat encoded ones.
C3_MaskFromRawTargets ==
    (fwd.fn = "forward" /\ fwd.line = 152) =>
        /\ fwd.noobj_mask.status = "ok"
        /\ fwd.mask_target_shape
              = <<Len(target_batch), MaxBoxes, NumClasses + 5>>
        /\ fwd.noobj_mask
              = no_object_mask(Predictions(fwd.predictions, Len(target_batch)),
                               target_batch, ignore_thresh)

\* ---- C4 ----------------------------------------------------------------
\* C4: the object loss is the binary cross-entropy between the objectness
\* logits of the gathered positives and a target of ones of the same length.
C4_ObjectLossTargetOnes ==
    fwd.fn = "forward" =>
        LET loss == obj_loss(Len(target_batch), fwd.target_indices)
        IN  /\ loss.status = "ok"
            /\ loss.target = filled(1, <<Len(fwd.target_indices)>>)

InitIou == InitIdle("iou")
NextIou == IouCall
SpecIou == InitIou /\ [][NextIou]_vars

\* ---- C5 ----------------------------------------------------------------
\* The half-pixel cells a box covers, read in one of the three forms.
CellsOf(l, t, r, b) == {<<i, j>> \in (l..(r - 1)) \X (t..(b - 1)) : TRUE}
CenterCells(b) == CellsOf(2 * b[1] - b[3], 2 * b[2] - b[4],
                          2 * b[1] + b[3], 2 * b[2] + b[4])
TopLeftCells(b) == CellsOf(2 * b[1], 2 * b[2],
                           2 * (b[1] + b[3]), 2 * (b[2] + b[4]))
CornerCells(b) == CellsOf(2 * b[1], 2 * b[2], 2 * b[3], 2 * b[4])
IsCornerBox(b) == b[3] >= b[1] /\ b[4] >= b[2]

IouCalled == call.fn = "iou" /\ ~call.center_aligned

\* C5 (as amended): iou with center_aligned=false is exactly 0 for every pair
\* of boxes of integer fields without spatial overlap, in center form
\* (cx,cy,w,h) with center_format=true and in top-left form (x,y,w,h) with
\* center_format=false.
C5_ZeroOverlapIsZero ==
    IouCalled =>
        /\ (call.center_format
            /\ CenterCells(call.bboxes1) \cap CenterCells(call.bboxes2) = {})
           => IouIsZero(call.out)
        /\ (~call.center_format
            /\ TopLeftCells(call.bboxes1) \cap TopLeftCells(call.bboxes2) = {})
           => IouIsZero(call.out)

\* C5 witness: two boxes of positive area, apart on both axes, center_format
\* on, and the call returned 0.
C5_Witness ==
    /\ IouCalled
    /\ call.center_format
    /\ call.bboxes1 = <<0, 0, 1, 1>>
    /\ call.bboxes2 = <<2, 2, 2, 2>>
    /\ IouIsZero(call.out)

\* C5 (original statement): the same for corner form (x1,y1,x2,y2) with
\* center_format=false (stated here for boxes of positive area).
C5_CornerFormIsZero ==
    (/\ IouCalled
     /\ ~call.center_format
     /\ IsCornerBox(call.bboxes1) /\ IsCornerBox(call.bboxes2)
     /\ CornerCells(call.bboxes1) /= {} /\ CornerCells(call.bboxes2) /= {}
     /\ CornerCells(call.bboxes1) \cap CornerCells(call.bboxes2) = {})
    => IouIsZero(call.out)

====
